---- MODULE Spec2Model ----
(***************************************************************************)
(* The bank example (examples/bank/bank.go): transfer workers move random  *)
(* amounts between accounts kept in a transactional key-value store while  *)
(* the main goroutine periodically sums all accounts.                      *)
(*                                                                         *)
(* Byte strings ([]byte keys and values) are sequences of byte values, so  *)
(* that identifiers, the JSON encoding and the store's key order are       *)
(* computed the way the code computes them.                                *)
(***************************************************************************)
EXTENDS Integers, Sequences, FiniteSets, TLC

(***************************************************************************)
(* Bounds.  The program runs with numAccounts = 10, initCash = 1000,       *)
(* amounts drawn by rand.Int63n(100) and 1000 transfer goroutines; the     *)
(* model keeps the same code with smaller values.                          *)
(***************************************************************************)
\* bank.numAccounts
NumAccounts == 3
\* initCash
InitCash == 1
\* the bound n of rand.Int63n(n): amounts are drawn from 0 .. MaxAmount-1
MaxAmount == 3
\* numTransferRoutines
NumWorkers == 2
\* no new attempt is started once numTransfers has reached this value
MaxTransfers == 2
\* how often the store may re-execute the closure of one sumAllAccounts call
MaxScanRetries == 1

\* width of "%09d"
IDWidth == 9

\* the ledger functions are applied to indices 0 .. MaxIndex and to balances
\* -MaxBalance .. MaxBalance, besides some of more digits
MaxIndex == 11
MaxBalance == 12

Workers == 1 .. NumWorkers
Indices == 0 .. (NumAccounts - 1)
Amounts == 0 .. (MaxAmount - 1)

(***************************************************************************)
(* Ledger model: identifiers and the record encoding.                      *)
(***************************************************************************)
RECURSIVE Digits(_)
\* the decimal digits of n >= 0, as ASCII bytes
Digits(n) ==
  IF n < 10 THEN <<48 + n>> ELSE Digits(n \div 10) \o <<48 + (n % 10)>>

RECURSIVE ZeroPad(_, _)
\* left padding with '0' up to width w; longer strings are left alone
ZeroPad(s, w) == IF Len(s) >= w THEN s ELSE ZeroPad(<<48>> \o s, w)

\* the identifier without its padding, "%d"
makeAccountID_NoPad(id) == Digits(id)

\* fmt.Sprintf("%09d", id), id >= 0
makeAccountID(id) == ZeroPad(Digits(id), IDWidth)

\* Account{Balance: b}
Account(b) == [Balance |-> b]

\* the decimal without its sign
IntBytes_NoSign(n) == IF n < 0 THEN Digits(0 - n) ELSE Digits(n)

\* strconv-style decimal of a signed integer
IntBytes(n) == IF n < 0 THEN <<45>> \o Digits(0 - n) ELSE Digits(n)

\* the bytes of {"Balance":
JSONPrefix == <<123, 34, 66, 97, 108, 97, 110, 99, 101, 34, 58>>

\* json.Marshal(a): {"Balance":<decimal>}
encode(a) == JSONPrefix \o IntBytes(a.Balance) \o <<125>>

IsDigit(c) == c >= 48 /\ c <= 57

\* a JSON integer literal: optional '-', then "0" or digits without leading zero
IsIntLiteral(s) ==
  LET d == IF Len(s) > 0 /\ s[1] = 45 THEN Tail(s) ELSE s
  IN  /\ Len(d) > 0
      /\ \A i \in 1 .. Len(d) : IsDigit(d[i])
      /\ (Len(d) > 1 => d[1] # 48)

RECURSIVE DigitsValue(_)
DigitsValue(d) ==
  IF Len(d) = 0 THEN 0
  ELSE 10 * DigitsValue(SubSeq(d, 1, Len(d) - 1)) + (d[Len(d)] - 48)

IntValue(s) ==
  IF s[1] = 45 THEN 0 - DigitsValue(Tail(s)) ELSE DigitsValue(s)

\* json.Unmarshal(b, a) on the form json.Marshal produces; any other input
\* the harness can meet (the empty value of an absent key) is an error.
decode(b) ==
  LET n == Len(b)
      p == Len(JSONPrefix)
  IN  IF /\ n >= p + 2
         /\ SubSeq(b, 1, p) = JSONPrefix
         /\ b[n] = 125
         /\ IsIntLiteral(SubSeq(b, p + 1, n - 1))
      THEN [err |-> FALSE, Balance |-> IntValue(SubSeq(b, p + 1, n - 1))]
      ELSE [err |-> TRUE, Balance |-> 0]

(***************************************************************************)
(* Store client: a map from keys to values, ordered byte-wise by key.      *)
(***************************************************************************)
RECURSIVE BytesLess(_, _)
\* bytes.Compare(a, b) < 0
BytesLess(a, b) ==
  IF Len(b) = 0 THEN FALSE
  ELSE IF Len(a) = 0 THEN TRUE
  ELSE IF a[1] # b[1] THEN a[1] < b[1]
  ELSE BytesLess(Tail(a), Tail(b))

\* the value bytes of a Get row: empty for an absent key
Get(st, key) == IF key \in DOMAIN st THEN st[key] ELSE <<>>

Put(st, key, value) ==
  [k \in (DOMAIN st) \cup {key} |-> IF k = key THEN value ELSE st[k]]

\* Del leaving the key in place
Del_Keep(st, key) == st

\* Del(key): the key is no longer present
Del(st, key) == [k \in (DOMAIN st) \ {key} |-> st[k]]

\* the condition taking an absent key to match any expected value
CPutMatches_Absent(st, key, exp) ==
  IF key \in DOMAIN st THEN st[key] = exp ELSE TRUE

\* the condition of CPut(key, value, exp): the key holds exp, or is absent
\* when exp is nil
CPutMatches(st, key, exp) ==
  IF key \in DOMAIN st THEN st[key] = exp ELSE exp = <<>>

RECURSIVE RunPuts(_, _)
\* a batch of puts, applied in order
RunPuts(st, puts) ==
  IF Len(puts) = 0 THEN st
  ELSE RunPuts(Put(st, puts[1][1], puts[1][2]), Tail(puts))

RECURSIVE SortKeys(_)
SortKeys(S) ==
  IF S = {} THEN <<>>
  ELSE LET m == CHOOSE k \in S : \A j \in S : ~BytesLess(j, k)
       IN  <<m>> \o SortKeys(S \ {m})

\* Scan(begin, end, maxRows): rows of the keys in [begin, end), ascending
Scan(st, begin, end, maxRows) ==
  LET keys == SortKeys({k \in DOMAIN st : ~BytesLess(k, begin) /\ BytesLess(k, end)})
      n    == IF Len(keys) < maxRows THEN Len(keys) ELSE maxRows
  IN  [i \in 1 .. n |-> [Key |-> keys[i], Value |-> st[keys[i]]]]

(***************************************************************************)
(* State.                                                                  *)
(***************************************************************************)
VARIABLES
  store,           \* the key-value store: committed keys and their values
  useTransaction,  \* the -use-transaction flag
  numTransfers,    \* bank.numTransfers
  fatal,           \* "none", or why log.Fatal ended the process
  mainPc,          \* where the main goroutine is
  spawned,         \* how many transfer goroutines main has started
  result,          \* sumAllAccounts: var result, captured by the closure
  totalAmount,     \* periodicallyCheckBalances: totalAmount
  scanRetries,     \* re-executions of the closure in this sumAllAccounts call
  goodOrder,       \* the current check printed "The bank is in good order"
  pc,              \* where each transfer goroutine is
  from,            \* per worker: from
  to,              \* per worker: to
  exchangeAmount,  \* per worker: exchangeAmount
  batchRead,       \* per worker: the two values of batchRead.Results[0].Rows
  fromAccount,     \* per worker: fromAccount
  toAccount,       \* per worker: toAccount
  batchWrite,      \* per worker: the puts of batchWrite
  applied,         \* history: attempts whose batchWrite was run and committed
  ledgerAtScan,    \* history: the sum of the ledger's balances in the state
                   \* the last scan ran in
  scanned,         \* history: how many rows this check's last scan returned
                   \* (-1 before the scan)
  transferErr,     \* history: a store operation of a transfer attempt has
                   \* returned an error
  reexecuted,      \* history, per worker: the call of bank.db.Tx under way
                   \* has run its closure more than once
  returned,        \* history: loop iterations, of all workers, in which the
                   \* transfer function returned without error
  db,              \* client examples: the store of the example's test server
  call,            \* client examples: the last operation and its arguments
  written,         \* client examples, history: per key, whether it was never
                   \* written, last put (and the value) or last deleted
  resultRows,      \* client examples: result.Rows of the last operation
  resultErr,       \* client examples: the last operation returned an error
  index,           \* ledger functions: the two indices given to makeAccountID
  ident,           \* ledger functions: the two identifiers made of them
  account,         \* ledger functions: the record given to encode
  encoded,         \* ledger functions: the bytes encode returned
  decoded          \* ledger functions: what decode made of those bytes

workerVars ==
  <<pc, from, to, exchangeAmount, batchRead, fromAccount, toAccount, batchWrite,
    reexecuted, returned>>

mainVars ==
  <<mainPc, spawned, result, totalAmount, scanRetries, goodOrder, ledgerAtScan,
    scanned>>

bankVars ==
  <<store, useTransaction, numTransfers, fatal, applied, transferErr, mainVars,
    workerVars>>

clientVars == <<db, call, written, resultRows, resultErr>>

codecVars == <<index, ident, account, encoded, decoded>>

\* the state of the client examples and of the ledger functions, which the
\* bank program does not touch
libVars == <<clientVars, codecVars>>

vars == <<bankVars, libVars>>

NoBytes == <<>>
NoStore == [k \in {} |-> NoBytes]

Running == fatal = "none"

(***************************************************************************)
(* The transfer closure, transferMoney.                                    *)
(***************************************************************************)
\* the guard with its comparison the wrong way round
InsufficientFunds_Flipped(fromAcc, amount) == amount < fromAcc.Balance

\* the guard left out
InsufficientFunds_Never(fromAcc, amount) == FALSE

\* the guard also refusing an amount equal to the balance
InsufficientFunds_OrEqual(fromAcc, amount) == fromAcc.Balance <= amount

\* "Ensure there is enough cash": the guard that returns nil without writing
InsufficientFunds(fromAcc, amount) == fromAcc.Balance < amount

\* fromAccount.Balance -= exchangeAmount
Debit(fromAcc, amount) == Account(fromAcc.Balance - amount)

\* toAccount.Balance += exchangeAmount
Credit(toAcc, amount) == Account(toAcc.Balance + amount)

\* the destination's value put under the source's identifier
batchWritePuts_FromKey(f, t, fromValue, toValue) == << <<f, toValue>> >>

\* batchWrite.Put(fromValue, toValue): one put, Put's arguments being
\* (key, value) as in batch.Put(makeAccountID(i), value)
batchWritePuts(f, t, fromValue, toValue) == << <<fromValue, toValue>> >>

\* what the closure does with the two rows it read, up to its write
AfterRead(rows, amount) ==
  LET fa == decode(rows[1])
      ta == decode(rows[2])
  IN  IF fa.err THEN [kind |-> "error"]
      ELSE IF InsufficientFunds(Account(fa.Balance), amount)
        THEN [kind |-> "skip", fromAccount |-> Account(fa.Balance)]
      ELSE IF ta.err THEN [kind |-> "error"]
      ELSE [kind |-> "write",
            fromAccount |-> Debit(Account(fa.Balance), amount),
            toAccount   |-> Credit(Account(ta.Balance), amount)]

NoAccount == Account(0)

\* the locals of one loop iteration before anything is read
ClearAttempt(w) ==
  /\ batchRead' = [batchRead EXCEPT ![w] = <<>>]
  /\ fromAccount' = [fromAccount EXCEPT ![w] = NoAccount]
  /\ toAccount' = [toAccount EXCEPT ![w] = NoAccount]
  /\ batchWrite' = [batchWrite EXCEPT ![w] = <<>>]

(***************************************************************************)
(* log.Fatal: the process exits, and with it every goroutine and local.    *)
(* The store, the counter and what was printed are kept as they were.      *)
(***************************************************************************)
\* the end of the process itself, whatever the failed operation left stored
Halt(why) ==
  /\ fatal' = why
  /\ mainPc' = "exited"
  /\ spawned' = 0
  /\ result' = 0
  /\ totalAmount' = 0
  /\ scanRetries' = 0
  /\ ledgerAtScan' = 0
  /\ pc' = [w \in Workers |-> "exited"]
  /\ from' = [w \in Workers |-> NoBytes]
  /\ to' = [w \in Workers |-> NoBytes]
  /\ exchangeAmount' = [w \in Workers |-> 0]
  /\ batchRead' = [w \in Workers |-> <<>>]
  /\ fromAccount' = [w \in Workers |-> NoAccount]
  /\ toAccount' = [w \in Workers |-> NoAccount]
  /\ batchWrite' = [w \in Workers |-> <<>>]
  /\ reexecuted' = [w \in Workers |-> FALSE]
  /\ UNCHANGED <<libVars, useTransaction, numTransfers, applied, goodOrder,
                 returned>>

\* log.Fatal after an operation that wrote nothing
Exit(why) == Halt(why) /\ UNCHANGED store

\* the error of runner.Run(batchRead) not looked at
ReadFails_RunErrIgnored(runErr, out) == out.kind = "error"

\* an error of runner.Run(batchRead), of Results[0] or of a decode makes
\* transferMoney return it
ReadFails(runErr, out) == runErr \/ out.kind = "error"

(***************************************************************************)
(* Transfer goroutines: continuousMoneyTransfer.                           *)
(***************************************************************************)
\* attempts not yet counted: those under way and those counted
Attempts == numTransfers + Cardinality({w \in Workers : pc[w] \in {"write", "commit", "count"}})

\* the comparison taking any two identifiers for different
BytesEqual_Never(a, b) == FALSE

\* bytes.Equal(a, b)
BytesEqual(a, b) == a = b

\* from == to: continue
Resample(w) ==
  /\ Running /\ pc[w] = "loop" /\ Attempts < MaxTransfers
  /\ \E i, j \in Indices : BytesEqual(makeAccountID(i), makeAccountID(j))
  /\ UNCHANGED vars

\* runner.Run(batchRead) by worker w for from f, to t and amount a, and the
\* closure's code up to batchWrite
RunBatchRead(w, f, t, a) ==
  \E failed \in BOOLEAN :
    LET rows == <<Get(store, f), Get(store, t)>>
        out  == AfterRead(rows, a)
    IN  IF ReadFails(failed, out)
        THEN /\ Exit("transfer error")
             /\ transferErr' = (transferErr \/ failed)
             /\ scanned' = scanned
        ELSE /\ transferErr' = (transferErr \/ failed)
             /\ from' = [from EXCEPT ![w] = f]
             /\ to' = [to EXCEPT ![w] = t]
             /\ exchangeAmount' = [exchangeAmount EXCEPT ![w] = a]
             /\ batchRead' = [batchRead EXCEPT ![w] = rows]
             /\ fromAccount' = [fromAccount EXCEPT ![w] = out.fromAccount]
             /\ batchWrite' = [batchWrite EXCEPT ![w] = <<>>]
             /\ reexecuted' = [reexecuted EXCEPT ![w] = (pc[w] # "loop")]
             /\ IF out.kind = "skip"
                THEN /\ toAccount' = [toAccount EXCEPT ![w] = NoAccount]
                     /\ pc' = [pc EXCEPT ![w] =
                                 IF useTransaction THEN "commit" ELSE "count"]
                     /\ returned' = returned + (IF useTransaction THEN 0 ELSE 1)
                ELSE /\ toAccount' = [toAccount EXCEPT ![w] = out.toAccount]
                     /\ pc' = [pc EXCEPT ![w] = "write"]
                     /\ returned' = returned
             /\ UNCHANGED <<libVars, store, useTransaction, numTransfers, fatal,
                            applied, mainVars>>

\* one loop iteration starts: two different identifiers and an amount are
\* drawn, and transferMoney runs up to its batch read
Transfer(w) ==
  /\ Running /\ pc[w] = "loop" /\ Attempts < MaxTransfers
  /\ \E i, j \in Indices, a \in Amounts :
       /\ ~BytesEqual(makeAccountID(i), makeAccountID(j))
       /\ RunBatchRead(w, makeAccountID(i), makeAccountID(j), a)

\* runner.Run(batchWrite): applied at once on the DB, buffered in a Tx
RunBatchWrite(w) ==
  /\ Running /\ pc[w] = "write"
  /\ \E failed \in BOOLEAN :
       LET puts == batchWritePuts(from[w], to[w],
                                  encode(fromAccount[w]), encode(toAccount[w]))
       IN  IF failed
           THEN /\ Exit("transfer error")
                /\ transferErr' = TRUE
                /\ scanned' = scanned
           ELSE /\ batchWrite' = [batchWrite EXCEPT ![w] = puts]
                /\ transferErr' = transferErr
                /\ IF useTransaction
                   THEN /\ pc' = [pc EXCEPT ![w] = "commit"]
                        /\ UNCHANGED <<store, applied, returned>>
                   ELSE /\ store' = RunPuts(store, puts)
                        /\ applied' = applied + 1
                        /\ returned' = returned + 1
                        /\ pc' = [pc EXCEPT ![w] = "count"]
                /\ UNCHANGED <<libVars, useTransaction, numTransfers, fatal,
                               mainVars, from, to, exchangeAmount, batchRead,
                               fromAccount, toAccount, reexecuted>>

\* the values the transaction read are still the committed ones
ReadsValid(w) ==
  /\ Get(store, from[w]) = batchRead[w][1]
  /\ Get(store, to[w]) = batchRead[w][2]

\* bank.db.Tx returns: the buffered puts become visible together, or an error
TxCommit(w) ==
  /\ Running /\ useTransaction /\ pc[w] = "commit"
  /\ \E failed \in BOOLEAN :
       IF failed
       THEN /\ Exit("transfer error")
            /\ transferErr' = TRUE
            /\ scanned' = scanned
       ELSE /\ ReadsValid(w)
            /\ transferErr' = transferErr
            /\ store' = RunPuts(store, batchWrite[w])
            /\ applied' = applied + (IF batchWrite[w] # <<>> THEN 1 ELSE 0)
            /\ returned' = returned + 1
            /\ pc' = [pc EXCEPT ![w] = "count"]
            /\ UNCHANGED <<libVars, useTransaction, numTransfers, fatal,
                           mainVars, from, to, exchangeAmount, batchRead,
                           fromAccount, toAccount, batchWrite>>
            /\ reexecuted' = [reexecuted EXCEPT ![w] = FALSE]

\* a re-execution that draws its accounts and its amount again
TxRetry_Redraw(w) ==
  /\ Running /\ useTransaction /\ pc[w] \in {"write", "commit"}
  /\ \E i, j \in Indices, a \in Amounts :
       /\ ~BytesEqual(makeAccountID(i), makeAccountID(j))
       /\ RunBatchRead(w, makeAccountID(i), makeAccountID(j), a)

\* bank.db.Tx runs the closure again after a conflict: nothing of the
\* abandoned execution is applied, and the same from, to and amount are read
TxRetry(w) ==
  /\ Running /\ useTransaction /\ pc[w] \in {"write", "commit"}
  /\ RunBatchRead(w, from[w], to[w], exchangeAmount[w])

\* an increment that starts from a value loaded before another goroutine's
\* increment: the second of two increments is lost
AddInt32_Lost(n, delta) == IF n >= 1 THEN n ELSE n + delta

\* atomic.AddInt32(addr, delta): load, add and store in one step
AddInt32(n, delta) == n + delta

\* atomic.AddInt32(&bank.numTransfers, 1), and the next loop iteration
CountTransfer(w) ==
  /\ Running /\ pc[w] = "count"
  /\ numTransfers' = AddInt32(numTransfers, 1)
  /\ pc' = [pc EXCEPT ![w] = "loop"]
  /\ from' = [from EXCEPT ![w] = NoBytes]
  /\ to' = [to EXCEPT ![w] = NoBytes]
  /\ exchangeAmount' = [exchangeAmount EXCEPT ![w] = 0]
  /\ reexecuted' = [reexecuted EXCEPT ![w] = FALSE]
  /\ ClearAttempt(w)
  /\ UNCHANGED <<libVars, store, useTransaction, fatal, applied, transferErr,
                 mainVars, returned>>

(***************************************************************************)
(* The main goroutine: main, initBankAccounts, periodicallyCheckBalances,  *)
(* sumAllAccounts.                                                         *)
(***************************************************************************)
\* the batch one put short
InitPuts_Short(cash) ==
  [i \in 1 .. (NumAccounts - 1) |-> <<makeAccountID(i - 1), encode(Account(cash))>>]

\* the puts of initBankAccounts' batch
InitPuts(cash) ==
  [i \in 1 .. NumAccounts |-> <<makeAccountID(i - 1), encode(Account(cash))>>]

\* initBankAccounts(initCash): one batch run on the DB, fatal when it fails;
\* a batch that fails may have written any number of its puts
InitBankAccounts ==
  /\ Running /\ mainPc = "init"
  /\ \E failed \in BOOLEAN :
       IF failed
       THEN /\ Halt("init error")
            /\ \E n \in 0 .. Len(InitPuts(InitCash)) :
                 store' = RunPuts(store, SubSeq(InitPuts(InitCash), 1, n))
            /\ UNCHANGED <<transferErr, scanned>>
       ELSE /\ store' = RunPuts(store, InitPuts(InitCash))
            /\ mainPc' = "spawn"
            /\ UNCHANGED <<libVars, useTransaction, numTransfers, fatal, applied,
                           transferErr, spawned, result, totalAmount,
                           scanRetries, goodOrder, ledgerAtScan, scanned,
                           workerVars>>

\* go bank.continuousMoneyTransfer(), numTransferRoutines times, then
\* periodicallyCheckBalances
Spawn ==
  /\ Running /\ mainPc = "spawn"
  /\ spawned' = spawned + 1
  /\ pc' = [pc EXCEPT ![spawned + 1] = "loop"]
  /\ mainPc' = IF spawned + 1 = NumWorkers THEN "sleep" ELSE "spawn"
  /\ UNCHANGED <<libVars, store, useTransaction, numTransfers, fatal, applied,
                 transferErr, result, totalAmount, scanRetries, goodOrder,
                 ledgerAtScan, scanned, from, to, exchangeAmount, batchRead,
                 fromAccount, toAccount, batchWrite, reexecuted, returned>>

\* one round of the loop begins: the sleep, the Printf, var result int64
BeginCheck ==
  /\ Running /\ mainPc = "sleep"
  /\ result' = 0
  /\ totalAmount' = 0
  /\ scanRetries' = 0
  /\ goodOrder' = FALSE
  /\ ledgerAtScan' = 0
  /\ scanned' = -1
  /\ mainPc' = "scan"
  /\ UNCHANGED <<libVars, store, useTransaction, numTransfers, fatal, applied,
                 transferErr, spawned, workerVars>>

RECURSIVE BalanceSum(_, _)
\* the balances stored under the identifiers of indices 0 .. n-1, added up;
\* an absent or malformed record counts as 0
BalanceSum(st, n) ==
  IF n = 0 THEN 0
  ELSE BalanceSum(st, n - 1) + decode(Get(st, makeAccountID(n - 1))).Balance

LedgerSum(st) == BalanceSum(st, NumAccounts)

RECURSIVE SumRows(_, _)
\* the loop over scan.Rows[0 .. n-1]: the sum of the decoded balances, or an
\* error when a row does not decode
SumRows(rows, n) ==
  IF n = 0 THEN [err |-> FALSE, sum |-> 0]
  ELSE LET rest == SumRows(rows, n - 1)
           acct == decode(rows[n].Value)
       IN  IF rest.err \/ acct.err THEN [err |-> TRUE, sum |-> 0]
           ELSE [err |-> FALSE, sum |-> rest.sum + acct.Balance]

\* the rows a scan may deliver: those of the range or, from a store that
\* loses a row, all but the last of them
ScanReplies(st) ==
  LET rows == Scan(st, makeAccountID(0), makeAccountID(NumAccounts), NumAccounts)
  IN  {rows} \cup (IF Len(rows) > 0 THEN {SubSeq(rows, 1, Len(rows) - 1)} ELSE {})

\* the closure without its row count check, adding up the rows it got
ScanClosure_NoCount(failed, rows) ==
  IF failed THEN [fatal |-> "scan error", sum |-> 0]
  ELSE IF SumRows(rows, Len(rows)).err THEN [fatal |-> "decode error", sum |-> 0]
  ELSE [fatal |-> "none", sum |-> SumRows(rows, Len(rows)).sum]

\* what the closure of sumAllAccounts does with the scan's reply: the reason
\* of its log.Fatal or "none", and what it adds to result
ScanClosure(failed, rows) ==
  IF failed THEN [fatal |-> "scan error", sum |-> 0]
  ELSE IF Len(rows) # NumAccounts THEN [fatal |-> "incomplete scan", sum |-> 0]
  ELSE IF SumRows(rows, NumAccounts).err THEN [fatal |-> "decode error", sum |-> 0]
  ELSE [fatal |-> "none", sum |-> SumRows(rows, NumAccounts).sum]

\* the closure of sumAllAccounts: tx.Scan, the checks, result += Balance
ScanAccounts ==
  /\ Running /\ mainPc = "scan"
  /\ \E failed \in BOOLEAN, rows \in ScanReplies(store) :
       LET out == ScanClosure(failed, rows)
       IN  /\ scanned' = (IF failed THEN scanned ELSE Len(rows))
           /\ transferErr' = transferErr
           /\ IF out.fatal # "none"
              THEN Exit(out.fatal)
              ELSE /\ result' = result + out.sum
                   /\ ledgerAtScan' = LedgerSum(store)
                   /\ mainPc' = "commit"
                   /\ UNCHANGED <<libVars, store, useTransaction, numTransfers, fatal,
                                  applied, spawned, totalAmount, scanRetries,
                                  goodOrder, workerVars>>

\* bank.db.Tx returns to sumAllAccounts, which returns result
ScanCommit ==
  /\ Running /\ mainPc = "commit"
  /\ \E failed \in BOOLEAN :
       IF failed
       THEN Exit("scan error") /\ UNCHANGED <<transferErr, scanned>>
       ELSE /\ totalAmount' = result
            /\ result' = 0
            /\ scanRetries' = 0
            /\ mainPc' = "check"
            /\ UNCHANGED <<libVars, store, useTransaction, numTransfers, fatal, applied,
                           transferErr, spawned, goodOrder, ledgerAtScan,
                           scanned, workerVars>>

\* bank.db.Tx runs the closure again after a conflict
ScanRetry ==
  /\ Running /\ mainPc = "commit" /\ scanRetries < MaxScanRetries
  /\ scanRetries' = scanRetries + 1
  /\ mainPc' = "scan"
  /\ UNCHANGED <<libVars, store, useTransaction, numTransfers, fatal, applied,
                 transferErr, spawned, result, totalAmount, goodOrder,
                 ledgerAtScan, scanned, workerVars>>

\* the comparison reporting a deficit only
Mismatch_DeficitOnly(total, cash) == total < NumAccounts * cash

\* totalAmount != int64(bank.numAccounts)*initCash
Mismatch(total, cash) == total # NumAccounts * cash

\* the comparison of periodicallyCheckBalances and its two outcomes
CheckBalances ==
  /\ Running /\ mainPc = "check"
  /\ IF Mismatch(totalAmount, InitCash)
     THEN Exit("violation") /\ UNCHANGED <<transferErr, scanned>>
     ELSE /\ goodOrder' = TRUE
          /\ mainPc' = "sleep"
          /\ UNCHANGED <<libVars, store, useTransaction, numTransfers, fatal, applied,
                         transferErr, spawned, result, totalAmount,
                         scanRetries, ledgerAtScan, scanned, workerVars>>

(***************************************************************************)
(* The specification.                                                      *)
(***************************************************************************)
\* the keys "aa", "ab", "bb" and the values "1", "2", "3" of the examples
ExampleKeys == {<<97, 97>>, <<97, 98>>, <<98, 98>>}
ExampleValues == {<<49>>, <<50>>, <<51>>}

\* an expected value of nil
Nil == <<>>

\* the range ends "a", "ab", "b", "c" and the row limits given to Scan
ScanEnds == {<<97>>, <<97, 98>>, <<98>>, <<99>>}
ScanLimits == {1, 2, 100}

NoCall ==
  [op |-> "none", key |-> NoBytes, value |-> NoBytes, exp |-> Nil,
   end |-> NoBytes, maxRows |-> 0]

NeverWritten == [state |-> "never", value |-> NoBytes]

\* no client example is running
ClientIdle ==
  /\ db = NoStore /\ call = NoCall
  /\ written = [k \in ExampleKeys |-> NeverWritten]
  /\ resultRows = <<>> /\ resultErr = FALSE

\* no ledger function is being applied
CodecIdle ==
  /\ index = <<0, 0>> /\ ident = <<>>
  /\ account = NoAccount /\ encoded = <<>> /\ decoded = <<>>

\* main before initBankAccounts
BankInit ==
  /\ store = NoStore
  /\ useTransaction \in BOOLEAN
  /\ numTransfers = 0
  /\ fatal = "none"
  /\ mainPc = "init"
  /\ spawned = 0
  /\ result = 0
  /\ totalAmount = 0
  /\ scanRetries = 0
  /\ goodOrder = FALSE
  /\ pc = [w \in Workers |-> "unborn"]
  /\ from = [w \in Workers |-> NoBytes]
  /\ to = [w \in Workers |-> NoBytes]
  /\ exchangeAmount = [w \in Workers |-> 0]
  /\ batchRead = [w \in Workers |-> <<>>]
  /\ fromAccount = [w \in Workers |-> NoAccount]
  /\ toAccount = [w \in Workers |-> NoAccount]
  /\ batchWrite = [w \in Workers |-> <<>>]
  /\ applied = 0
  /\ ledgerAtScan = 0
  /\ scanned = -1
  /\ transferErr = FALSE
  /\ reexecuted = [w \in Workers |-> FALSE]
  /\ returned = 0

Init == BankInit /\ ClientIdle /\ CodecIdle

Next ==
  \/ InitBankAccounts
  \/ Spawn
  \/ BeginCheck
  \/ ScanAccounts
  \/ ScanCommit
  \/ ScanRetry
  \/ CheckBalances
  \/ \E w \in Workers : Resample(w)
  \/ \E w \in Workers : Transfer(w)
  \/ \E w \in Workers : RunBatchWrite(w)
  \/ \E w \in Workers : TxCommit(w)
  \/ \E w \in Workers : TxRetry(w)
  \/ \E w \in Workers : CountTransfer(w)

Spec == Init /\ [][Next]_vars

(***************************************************************************)
(* The client examples (package client_test): single operations of a DB on *)
(* a fresh test server.                                                    *)
(***************************************************************************)
Call(op, key, value, exp, end, maxRows) ==
  [op |-> op, key |-> key, value |-> value, exp |-> exp, end |-> end,
   maxRows |-> maxRows]

\* db.Put(key, value)
DBPut ==
  \E k \in ExampleKeys, v \in ExampleValues :
    /\ db' = Put(db, k, v)
    /\ call' = Call("Put", k, v, Nil, NoBytes, 0)
    /\ written' = [written EXCEPT ![k] = [state |-> "put", value |-> v]]
    /\ resultRows' = <<>>
    /\ resultErr' = FALSE
    /\ UNCHANGED <<bankVars, codecVars>>

\* db.Del(key)
DBDel ==
  \E k \in ExampleKeys :
    /\ db' = Del(db, k)
    /\ call' = Call("Del", k, NoBytes, Nil, NoBytes, 0)
    /\ written' = [written EXCEPT ![k] = [state |-> "deleted", value |-> NoBytes]]
    /\ resultRows' = <<>>
    /\ resultErr' = FALSE
    /\ UNCHANGED <<bankVars, codecVars>>

\* db.Get(key)
DBGet ==
  \E k \in ExampleKeys :
    /\ call' = Call("Get", k, NoBytes, Nil, NoBytes, 0)
    /\ resultRows' = <<[Key |-> k, Value |-> Get(db, k)]>>
    /\ resultErr' = FALSE
    /\ UNCHANGED <<bankVars, codecVars, db, written>>

\* db.CPut(key, value, exp)
DBCPut ==
  \E k \in ExampleKeys, v \in ExampleValues, e \in ExampleValues \cup {Nil} :
    /\ call' = Call("CPut", k, v, e, NoBytes, 0)
    /\ resultRows' = <<>>
    /\ IF CPutMatches(db, k, e)
       THEN /\ db' = Put(db, k, v)
            /\ written' = [written EXCEPT ![k] = [state |-> "put", value |-> v]]
            /\ resultErr' = FALSE
       ELSE /\ resultErr' = TRUE
            /\ UNCHANGED <<db, written>>
    /\ UNCHANGED <<bankVars, codecVars>>

\* db.Scan(begin, end, maxRows)
DBScan ==
  \E b \in ScanEnds, e \in ScanEnds, n \in ScanLimits :
    /\ BytesLess(b, e)
    /\ call' = Call("Scan", b, NoBytes, Nil, e, n)
    /\ resultRows' = Scan(db, b, e, n)
    /\ resultErr' = FALSE
    /\ UNCHANGED <<bankVars, codecVars, db, written>>

ClientInit == BankInit /\ useTransaction /\ ClientIdle /\ CodecIdle

ClientNext == DBPut \/ DBDel \/ DBGet \/ DBCPut \/ DBScan

ClientSpec == ClientInit /\ [][ClientNext]_vars

(***************************************************************************)
(* The ledger functions on their own: makeAccountID, encode and decode     *)
(* applied to arguments drawn from bounded sets.                           *)
(***************************************************************************)
\* the balances encode is given
Balances ==
  (-MaxBalance .. MaxBalance)
    \cup {-2147483647, -1000000, -1000, -100, 100, 1000, 1000000, 2147483647}

\* makeAccountID(i) and makeAccountID(j)
MakeAccountIDs ==
  /\ ident = <<>>
  /\ ident' = <<makeAccountID(index[1]), makeAccountID(index[2])>>
  /\ UNCHANGED <<bankVars, clientVars, index, account, encoded, decoded>>

\* value, err := account.encode()
Encode ==
  /\ encoded = <<>>
  /\ encoded' = encode(account)
  /\ UNCHANGED <<bankVars, clientVars, index, ident, account, decoded>>

\* account := &Account{}; err := account.decode(value)
Decode ==
  /\ encoded # <<>> /\ decoded = <<>>
  /\ decoded' = <<decode(encoded)>>
  /\ UNCHANGED <<bankVars, clientVars, index, ident, account, encoded>>

LedgerInit ==
  /\ BankInit /\ useTransaction /\ ClientIdle
  /\ index \in (0 .. MaxIndex) \X (0 .. MaxIndex)
  /\ ident = <<>>
  /\ account \in {Account(b) : b \in Balances}
  /\ encoded = <<>>
  /\ decoded = <<>>

LedgerNext == MakeAccountIDs \/ Encode \/ Decode

LedgerSpec == LedgerInit /\ [][LedgerNext]_vars

(***************************************************************************)
(* Properties.                                                             *)
(***************************************************************************)
\* initBankAccounts has returned
Initialized == mainPc # "init" /\ fatal # "init error"

\* the balance stored under the identifier of index i
StoredBalance(st, i) == decode(Get(st, makeAccountID(i))).Balance

\* worker w's batchWrite has been built or run in its current attempt
Writing(w) == pc[w] = "write" \/ batchWrite[w] # <<>>

\* the closure of w's current attempt has read a source balance smaller than
\* the amount
InsufficientAttempt(w) ==
  /\ batchRead[w] # <<>>
  /\ exchangeAmount[w] > decode(batchRead[w][1]).Balance

\* C1 (conservation): with transactions enabled, once initialization has
\* completed, the balances stored under the numAccounts identifiers add up to
\* numAccounts * initialBalance in every reachable state.
C1_Conservation ==
  (useTransaction /\ Initialized) => LedgerSum(store) = NumAccounts * InitCash

\* two attempts with a write have committed, one of a positive amount
C1_Witness ==
  /\ useTransaction /\ applied >= 2
  /\ \E w \in Workers :
       pc[w] = "count" /\ batchWrite[w] # <<>> /\ exchangeAmount[w] > 0

\* C2 (non-negativity): with transactions enabled, every stored account
\* balance is >= 0, and a worker builds or runs its write only when the amount
\* does not exceed the source balance it read, with a source balance >= 0
\* after the debit.
C2_NonNegativity ==
  useTransaction =>
    /\ \A i \in Indices : StoredBalance(store, i) >= 0
    /\ \A w \in Workers :
         Writing(w) =>
           /\ exchangeAmount[w] <= decode(batchRead[w][1]).Balance
           /\ fromAccount[w].Balance >= 0

\* one worker's closure has skipped for lack of funds while another's write
\* has committed
C2_Witness ==
  /\ useTransaction
  /\ \E w, v \in Workers :
       /\ pc[w] = "commit" /\ InsufficientAttempt(w) /\ batchWrite[w] = <<>>
       /\ pc[v] = "count" /\ batchWrite[v] # <<>>

\* C3 (transfer effect), as claimed: when w's write commits on the balances
\* it read, the record under from holds the previous balance minus the
\* amount, the record under to the previous balance plus the amount, and
\* every other account's record is unchanged.
C3_TransferEffect ==
  [][\A w \in Workers :
       ( /\ pc[w] \in {"write", "commit"} /\ pc'[w] = "count"
         /\ batchWrite'[w] # <<>>
         /\ ReadsValid(w) )
       => /\ Get(store', from[w]) =
               encode(Account(decode(Get(store, from[w])).Balance - exchangeAmount[w]))
          /\ Get(store', to[w]) =
               encode(Account(decode(Get(store, to[w])).Balance + exchangeAmount[w]))
          /\ \A i \in Indices :
               makeAccountID(i) \notin {from[w], to[w]}
                 => Get(store', makeAccountID(i)) = Get(store, makeAccountID(i))
    ]_vars

\* C4 (skip on insufficiency): an attempt whose amount exceeds the source
\* balance read builds and runs no write and ends without error (its closure
\* has returned nil: the worker is at the commit of an empty transaction or at
\* the counter), and the worker's steps into and out of such an attempt leave
\* the whole store unchanged.
C4_SkipOnInsufficiency ==
  /\ [](\A w \in Workers :
          InsufficientAttempt(w) =>
            pc[w] \in {"commit", "count"} /\ batchWrite[w] = <<>>)
  /\ [][\A w \in Workers :
          ( \/ batchRead'[w] # batchRead[w] /\ InsufficientAttempt(w)'
            \/ pc'[w] # pc[w] /\ InsufficientAttempt(w) )
          => store' = store /\ applied' = applied
       ]_vars

\* with transactions enabled, a skipped attempt has committed and is about to
\* be counted
C4_Witness ==
  /\ useTransaction
  /\ \E w \in Workers : InsufficientAttempt(w) /\ pc[w] = "count"

\* C5 (snapshot read by the monitor), as claimed: the total sumAllAccounts
\* returns is the sum of the balances as they stood in the one state its scan
\* ran in, and with transactions enabled the monitor reports no violation.
C5_SnapshotTotal ==
  /\ mainPc = "check" => totalAmount = ledgerAtScan
  /\ useTransaction => fatal # "violation"

\* without transactions, two workers' writes of positive amounts have both
\* been run, nothing else has been written or counted, the first's destination
\* is the second's source, and both read that account at the same balance
RacedTransfers ==
  /\ ~useTransaction /\ numTransfers = 0 /\ applied = 2
  /\ \E w, v \in Workers :
       /\ w # v
       /\ pc[w] = "count" /\ batchWrite[w] # <<>> /\ exchangeAmount[w] > 0
       /\ pc[v] = "count" /\ batchWrite[v] # <<>> /\ exchangeAmount[v] > 0
       /\ to[w] = from[v] /\ from[w] # to[v]
       /\ batchRead[w][2] = batchRead[v][1]

\* C6 (breakage without atomicity), as claimed, on the interleaving of two
\* attempts that read the account they share before either writes: the
\* monitor's scan of the ledger they left adds up a total that differs from
\* numAccounts * initialBalance.
C6_BreakageObserved ==
  [][(RacedTransfers /\ mainPc = "scan" /\ scanRetries = 0 /\ mainPc' = "commit")
       => result' # NumAccounts * InitCash
    ]_vars

\* without transactions the ledger's sum is what initialization wrote, in
\* every state: no interleaving changes what a scan adds up
NoBreakageWithoutTransactions ==
  (~useTransaction /\ Initialized) => LedgerSum(store) = NumAccounts * InitCash

\* C7 (incomplete scan is fatal): a scan that returns a number of rows other
\* than numAccounts ends the process with the incomplete-scan error, and a
\* sum is returned, compared or reported in good order only for a scan of
\* numAccounts rows.
C7_IncompleteScanFatal ==
  /\ scanned \notin {-1, NumAccounts} =>
       fatal = "incomplete scan" /\ mainPc = "exited" /\ ~goodOrder
  /\ mainPc \in {"commit", "check"} => scanned = NumAccounts
  /\ goodOrder => scanned = NumAccounts

\* after a committed write, a scan returned numAccounts - 1 rows
C7_Witness ==
  /\ scanned = NumAccounts - 1 /\ fatal = "incomplete scan" /\ applied >= 1

\* C8 (monitor verdicts): the comparison of a check ends the process with the
\* violation when the total differs from numAccounts * initialBalance, without
\* reporting good order; when it matches, good order is reported and the loop
\* goes back to its sleep.  The main goroutine stops only by a fatal error.
C8_MonitorVerdicts ==
  /\ [][(mainPc = "check" /\ mainPc' # "check" /\ fatal' # "transfer error")
          => IF totalAmount # NumAccounts * InitCash
             THEN fatal' = "violation" /\ ~goodOrder'
             ELSE fatal' = "none" /\ goodOrder' /\ mainPc' = "sleep"
       ]_vars
  /\ [](mainPc = "exited" <=> fatal # "none")

\* a check has matched after a committed write, and the loop sleeps again
C8_Witness == mainPc = "sleep" /\ goodOrder /\ applied >= 1

\* C9 (transfer counter), as claimed: while the process runs, the counter
\* and the committed writes still to be counted add up to the number of
\* attempts whose write was run and committed.
C9_CounterCountsApplied ==
  Running =>
    numTransfers
      + Cardinality({w \in Workers : pc[w] = "count" /\ batchWrite[w] # <<>>})
      = applied

\* C10 (fatal on any store error): once a store operation of a transfer
\* attempt has returned an error the process has ended and no goroutine is
\* left to retry; the step that ends the process does not increment the
\* counter; and after the end the store, the counter and the goroutines stay
\* as they are.
C10_FatalOnStoreError ==
  /\ [](transferErr =>
          fatal = "transfer error" /\ \A w \in Workers : pc[w] = "exited")
  /\ [][(fatal = "none" /\ fatal' # "none") => numTransfers' = numTransfers]_vars
  /\ [][fatal # "none" => UNCHANGED <<store, numTransfers, pc>>]_vars

\* a store operation failed after a write had been committed and counted
C10_Witness ==
  /\ transferErr /\ fatal = "transfer error" /\ numTransfers >= 1 /\ applied >= 1

\* every account identifier has a record
FullLedger(st) == \A i \in Indices : makeAccountID(i) \in DOMAIN st

\* C11 (initialization before workload): initBankAccounts' write takes the
\* store in one step from empty to exactly numAccounts records, under the
\* identifiers of indices 0 .. numAccounts-1, each holding the starting
\* balance; a failure of that write ends the process; and whenever a transfer
\* goroutine exists or a check is under way, and whenever the ledger is read
\* or written, every account identifier has its record.
C11_InitBeforeWorkload ==
  /\ [][(mainPc = "init" /\ mainPc' = "spawn")
          => /\ store = NoStore
             /\ store' = [k \in {makeAccountID(i) : i \in Indices} |->
                            encode(Account(InitCash))]
       ]_vars
  /\ [][(mainPc = "init" /\ mainPc' # "init" /\ mainPc' # "spawn")
          => fatal' = "init error" /\ mainPc' = "exited"]_vars
  /\ [](mainPc = "init" => \A w \in Workers : pc[w] = "unborn")
  /\ []((\/ \E w \in Workers : pc[w] \notin {"unborn", "exited"}
          \/ mainPc \in {"sleep", "scan", "commit", "check"})
          => FullLedger(store))
  /\ [](~FullLedger(store) => mainPc \in {"init", "exited"})

\* a check compares its total while a worker's attempt is under way
C11_Witness ==
  /\ mainPc = "check" /\ FullLedger(store)
  /\ \E w \in Workers : pc[w] = "write"

\* a step in which bank.db.Tx runs the closure of w's attempt again
RetryStep(w) ==
  /\ pc[w] \in {"write", "commit"} /\ pc'[w] \in {"write", "commit"}
  /\ reexecuted'[w] /\ batchWrite'[w] = <<>>
  /\ <<pc[w], batchRead[w], fromAccount[w], toAccount[w], batchWrite[w],
       reexecuted[w]>>' #
     <<pc[w], batchRead[w], fromAccount[w], toAccount[w], batchWrite[w],
       reexecuted[w]>>

\* w's locals are those of one execution of the closure on the rows in
\* batchRead[w]
SingleExecution(w) ==
  LET fb == decode(batchRead[w][1]).Balance
      tb == decode(batchRead[w][2]).Balance
      a  == exchangeAmount[w]
  IN  IF fb < a
      THEN batchWrite[w] = <<>> /\ pc[w] \in {"commit", "count"}
      ELSE /\ fromAccount[w].Balance = fb - a
           /\ toAccount[w].Balance = tb + a
           /\ batchWrite[w] \in
                {<<>>, batchWritePuts(from[w], to[w], encode(Account(fb - a)),
                                      encode(Account(tb + a)))}

\* C12 (retry safety of the transfer closure): a re-execution of the closure
\* keeps the attempt's two accounts and its amount, reads the two rows afresh
\* and changes neither the store nor the counter; whatever the number of
\* re-executions, the worker's balances and its write are those of one
\* execution on the rows it read last; the commit applies that write, and no
\* other, on rows still current; and the counter is incremented by exactly
\* one when the attempt is counted.
C12_RetrySafety ==
  /\ [][\A w \in Workers :
          RetryStep(w) =>
            /\ from'[w] = from[w] /\ to'[w] = to[w]
            /\ exchangeAmount'[w] = exchangeAmount[w]
            /\ batchRead'[w] = <<Get(store, from[w]), Get(store, to[w])>>
            /\ store' = store /\ numTransfers' = numTransfers
            /\ applied' = applied
       ]_vars
  /\ [](\A w \in Workers :
          (useTransaction /\ batchRead[w] # <<>>) => SingleExecution(w))
  /\ [][\A w \in Workers :
          (useTransaction /\ pc[w] = "commit" /\ pc'[w] = "count")
            => ReadsValid(w) /\ store' = RunPuts(store, batchWrite[w])
       ]_vars
  /\ [][\A w \in Workers :
          (pc[w] = "count" /\ pc'[w] = "loop")
            => numTransfers' = numTransfers + 1
       ]_vars

\* after another attempt's write has committed, a closure that was
\* re-executed has run its write, which bank.db.Tx is about to commit
C12_Witness ==
  /\ useTransaction /\ applied >= 1
  /\ \E w \in Workers :
       /\ pc[w] = "commit" /\ reexecuted[w]
       /\ batchWrite[w] # <<>> /\ exchangeAmount[w] > 0

\* C13 (account identifiers), under LedgerSpec: the identifiers made of two
\* indices i and j have the same fixed width, are equal when i = j and
\* different when i # j, are ordered byte-wise as i and j are, and
\* makeAccountID(i) lies in the range [makeAccountID(0), makeAccountID(j))
\* exactly when i < j.
C13_AccountIdentifiers ==
  ident # <<>> =>
    LET i == index[1]
        j == index[2]
    IN  /\ Len(ident[1]) = IDWidth /\ Len(ident[2]) = IDWidth
        /\ (i = j) <=> (ident[1] = ident[2])
        /\ (i < j) <=> BytesLess(ident[1], ident[2])
        /\ (i < j) <=> (/\ ~BytesLess(ident[1], makeAccountID(0))
                        /\ BytesLess(ident[1], ident[2]))

\* the identifiers of 9 and 10 have been made
C13_Witness == ident # <<>> /\ index = <<9, 10>>

\* C16 (record encoding round-trip), under LedgerSpec: decoding the bytes
\* encode made of a record returns no error and yields a record equal to it.
C16_EncodeRoundTrip ==
  decoded # <<>> =>
    /\ ~decoded[1].err
    /\ Account(decoded[1].Balance) = account

\* a negative balance of several digits has been encoded and decoded
C16_Witness ==
  decoded # <<>> /\ account.Balance < -9 /\ encoded = encode(account)

\* the keys last put and not deleted since, within [begin, end)
PresentInRange(begin, end) ==
  {k \in ExampleKeys :
     /\ written[k].state = "put"
     /\ ~BytesLess(k, begin) /\ BytesLess(k, end)}

\* C14 (range scan of the store), under ClientSpec: after any sequence of
\* puts, conditional puts and deletes, the rows of Scan(begin, end, maxRows)
\* are in strictly ascending key order; each is a key last put and not
\* deleted since, within [begin, end), with the value last written to it;
\* there are as many rows as such keys, or maxRows if that is fewer; and no
\* such key left out precedes a row's key.
C14_RangeScan ==
  call.op = "Scan" =>
    LET present == PresentInRange(call.key, call.end)
        n       == Len(resultRows)
        keys    == {resultRows[r].Key : r \in 1 .. n}
    IN  /\ ~resultErr
        /\ \A r \in 1 .. n :
             /\ resultRows[r].Key \in present
             /\ resultRows[r].Value = written[resultRows[r].Key].value
        /\ \A r \in 1 .. (n - 1) :
             BytesLess(resultRows[r].Key, resultRows[r + 1].Key)
        /\ n = (IF Cardinality(present) < call.maxRows
                THEN Cardinality(present) ELSE call.maxRows)
        /\ \A k \in present \ keys : \A r \in 1 .. n :
             BytesLess(resultRows[r].Key, k)

\* ExampleDB_Del: "ab" was put and deleted, "aa" and "bb" are present, and a
\* scan of ["a", "c") has returned the two of them
C14_Witness ==
  /\ call.op = "Scan" /\ call.key = <<97>> /\ call.end = <<99>>
  /\ written[<<97, 98>>].state = "deleted"
  /\ Len(resultRows) = 2
  /\ resultRows[1].Key = <<97, 97>> /\ resultRows[2].Key = <<98, 98>>

\* what a Get of the key returns according to the writes so far
LastWritten(k) == IF written[k].state = "put" THEN written[k].value ELSE <<>>

\* C15 (conditional put of the store), under ClientSpec: CPut(key, value,
\* exp) returns no error and leaves the key holding value exactly when the
\* key held exp before, or was absent with exp nil; otherwise it returns an
\* error and the key holds what it held, or stays absent; and a Get returns
\* the value last written to its key, empty for an absent key.
C15_ConditionalPut ==
  /\ [][call'.op = "CPut" =>
          LET k == call'.key
          IN  IF \/ written[k].state = "put" /\ written[k].value = call'.exp
                 \/ written[k].state # "put" /\ call'.exp = Nil
              THEN /\ ~resultErr'
                   /\ k \in DOMAIN db' /\ Get(db', k) = call'.value
              ELSE /\ resultErr'
                   /\ Get(db', k) = Get(db, k)
                   /\ (k \in DOMAIN db') <=> (k \in DOMAIN db)
       ]_vars
  /\ [](call.op = "Get" =>
          /\ ~resultErr
          /\ resultRows[1].Value = LastWritten(call.key))

\* ExampleDB_CPut: "aa" holds "2", and CPut("bb", "3", "1") on the absent
\* "bb" has returned an error
C15_Witness ==
  /\ call.op = "CPut" /\ call.key = <<98, 98>> /\ call.exp = <<49>>
  /\ resultErr /\ <<98, 98>> \notin DOMAIN db
  /\ Get(db, <<97, 97>>) = <<50>>

\* the identifiers of the ledger's accounts
AccountIDs == {makeAccountID(i) : i \in Indices}

\* C17 (distinct accounts): every attempt that has read from the store is on
\* two different identifiers, both of indices in [0, numAccounts); a worker
\* holds identifiers only while such an attempt is under way, so equal picks
\* have led to no read, no write and no increment.
C17_DistinctAccounts ==
  \A w \in Workers :
    /\ batchRead[w] # <<>> =>
         /\ from[w] # to[w]
         /\ from[w] \in AccountIDs /\ to[w] \in AccountIDs
    /\ (batchRead[w] = <<>>) <=> (pc[w] \in {"unborn", "loop", "exited"})
    /\ batchRead[w] = <<>> => from[w] = NoBytes /\ to[w] = NoBytes

\* two attempts on the same two accounts, in opposite directions, are about
\* to write
C17_Witness ==
  \E w, v \in Workers :
    /\ pc[w] = "write" /\ pc[v] = "write"
    /\ from[w] = to[v] /\ to[w] = from[v]

\* w's current attempt has read its rows and is of amount 0
ZeroAttempt(w) == batchRead[w] # <<>> /\ exchangeAmount[w] = 0

\* C18 (zero-amount transfer): the guard never takes amount 0 for
\* insufficient funds, whatever the balance, 0 included; an attempt of amount
\* 0 is on the write path, with the balances it read as the balances to
\* write; the step that completes it leaves every account's stored balance
\* as it was and is no fatal error; and every amount lies in [0, MaxAmount).
C18_ZeroAmount ==
  /\ [](\A b \in 0 .. (NumAccounts * InitCash) :
          ~InsufficientFunds(Account(b), 0))
  /\ [](\A w \in Workers :
          /\ exchangeAmount[w] \in 0 .. (MaxAmount - 1)
          /\ ZeroAttempt(w) =>
               /\ Writing(w)
               /\ fromAccount[w].Balance = decode(batchRead[w][1]).Balance
               /\ toAccount[w].Balance = decode(batchRead[w][2]).Balance)
  /\ [][\A w \in Workers :
          (ZeroAttempt(w) /\ pc[w] # "count" /\ pc'[w] = "count")
            => /\ fatal' = "none"
               /\ applied' = applied + 1
               /\ \A i \in Indices :
                    StoredBalance(store', i) = StoredBalance(store, i)
       ]_vars

\* an attempt of amount 0 has run its write and is about to be counted
C18_Witness ==
  \E w \in Workers :
    ZeroAttempt(w) /\ pc[w] = "count" /\ batchWrite[w] # <<>>

\* the keys of a batch of puts
PutKeys(puts) == {puts[n][1] : n \in 1 .. Len(puts)}

\* C19 (ledger key set is fixed), as claimed: once initialization has
\* completed the store holds a record under exactly the numAccounts account
\* identifiers, and the keys of a worker's write are among the two
\* identifiers it selected.
C19_KeySetFixed ==
  Initialized =>
    /\ DOMAIN store = AccountIDs
    /\ \A w \in Workers : PutKeys(batchWrite[w]) \subseteq {from[w], to[w]}

\* no step of the main goroutine after initialization changes the store
MonitorWritesNothing ==
  [][(mainPc # "init" /\ mainPc' # mainPc) => store' = store]_vars

\* C20 (no lost counter updates): while the process runs, the counter and the
\* iterations about to increment it add up to the number of iterations, of
\* all workers, in which the transfer function returned without error; the
\* counter never exceeds that number.
C20_NoLostCounterUpdates ==
  /\ numTransfers <= returned
  /\ Running =>
       numTransfers + Cardinality({w \in Workers : pc[w] = "count"}) = returned

\* two iterations have returned without error and both have been counted
C20_Witness == Running /\ numTransfers = 2 /\ returned = 2

====
